---- MODULE Spec2Model ----
(***************************************************************************)
(* Model of sources/mongodb/helpers.py: CollectionLoader (make_query,       *)
(* clean_document, load_documents) and the chunking generator               *)
(* collection_documents.                                                    *)
(*                                                                          *)
(* Three specifications share the module:                                     *)
(*   SpecClean  clean_document applied (twice) to every bounded document;   *)
(*   Spec       one extraction: consumer pulls, loader construction, query, *)
(*              cursor reads, chunk yields, store faults and the pipeline   *)
(*              framework rewriting the descriptor's watermark;             *)
(*   FairSpec   Spec without store faults, with weak fairness on the         *)
(*              consumer and the extractor.                                 *)
(***************************************************************************)
EXTENDS Integers, Sequences, FiniteSets, TLC

VARIABLES
    document,     \* SpecClean: the object handed to clean_document
    output,       \* SpecClean: what clean_document returned
    output2,      \* SpecClean: clean_document applied to that result
    cpc,          \* SpecClean: "input" | "cleaned" | "recleaned"
    collection,   \* the store's documents, in the store's iteration order
    incremental,  \* the dlt.sources.incremental descriptor (or absent)
    loader,       \* the CollectionLoader object (self.last_value, ...)
    filter_op,    \* the filter handed to collection.find (or not yet built)
    result,       \* the documents the open store cursor iterates over
    pos,          \* how many documents the store cursor has handed out
    gen_done,     \* load_documents() has run off its end
    docs_slice,   \* the list islice is filling for the current pull
    chunks,       \* the chunks the consumer has received, in order
    pc,           \* where collection_documents stands
    outcome,      \* what the consumer's last pull returned
    fault         \* the fault the store raised, if any

vars == <<document, output, output2, cpc, collection, incremental, loader,
          filter_op, result, pos, gen_done, docs_slice, chunks, pc, outcome,
          fault>>

cleanVars == <<document, output, output2, cpc>>

extractVars == <<collection, incremental, loader, filter_op, result, pos,
                 gen_done, docs_slice, chunks, pc, outcome, fault>>

(***************************************************************************)
(* Bounds.                                                                  *)
(***************************************************************************)
\* largest number of nodes (scalars, lists, dicts) of an enumerated document
MaxNodes == 4
\* largest number of documents in the collection
MaxDocs == 5
\* CHUNK_SIZE = 10000 in helpers.py:26, scaled down so that several chunks,
\* a short last chunk and an exact multiple all occur within MaxDocs.
CHUNK_SIZE == 2

(***************************************************************************)
(* Values.  Every Python value is a record with the same four fields, so    *)
(* that any two values can be compared:                                     *)
(*   kind   "none" | "int" | "str" | "decimal" | "oid" | "dec128"           *)
(*          | "list" | "dict"                                               *)
(*   val    scalar payload, a sequence of integers                          *)
(*            int      <<n>>                                                *)
(*            str      the character codes (hex digits of an ObjectId)      *)
(*            oid      the 12 bytes                                         *)
(*            dec128   <<sign, coefficient, exponent>>                      *)
(*            decimal  <<sign, exponent>> \o decimal digits of coefficient  *)
(*   keys   dict: the keys in insertion order                               *)
(*   items  dict: the values, parallel to keys; list: the elements          *)
(***************************************************************************)
Scalar(k, v) == [kind |-> k, val |-> v, keys |-> <<>>, items |-> <<>>]

None == Scalar("none", <<>>)

IntVal(n) == Scalar("int", <<n>>)

MkList(xs) == [kind |-> "list", val |-> <<>>, keys |-> <<>>, items |-> xs]

MkDict(ks, xs) == [kind |-> "dict", val |-> <<>>, keys |-> ks, items |-> xs]

\* bson ObjectId: 12 bytes; the last one tells the model's identifiers apart
ObjectId(i) == Scalar("oid", [j \in 1..12 |-> IF j = 12 THEN i ELSE 0])

\* bson Decimal128 with the given sign, coefficient and exponent
Decimal128(s, c, e) == Scalar("dec128", <<s, c, e>>)

RECURSIVE HexDigits(_)
HexDigits(bytes) ==
    IF bytes = <<>> THEN <<>>
    ELSE <<Head(bytes) \div 16, Head(bytes) % 16>> \o HexDigits(Tail(bytes))

\* str(ObjectId): the 24 hexadecimal digits of the 12 bytes
str(value) == Scalar("str", HexDigits(value.val))

RECURSIVE DecDigits(_)
DecDigits(n) ==
    IF n < 10 THEN <<n>> ELSE Append(DecDigits(n \div 10), n % 10)

\* Decimal128.to_decimal(): decimal.Decimal((sign, digits, exponent)), exact
to_decimal(value) ==
    Scalar("decimal", <<value.val[1], value.val[3]>> \o DecDigits(value.val[2]))

\* Python dict item assignment, output[key] = value: an existing key keeps
\* its position, a new key goes last
DictSet(d, key, value) ==
    IF \E i \in 1..Len(d.keys) : d.keys[i] = key
    THEN [d EXCEPT !.items =
            [i \in 1..Len(d.items) |-> IF d.keys[i] = key THEN value ELSE d.items[i]]]
    ELSE [d EXCEPT !.keys = Append(d.keys, key), !.items = Append(d.items, value)]

RECURSIVE clean_document(_)

\* a slip in the list branch: the cleaned list is wrapped in a new list
\* instead of being rebuilt element by element
clean_value_wrapped(value) ==
    IF value.kind \notin {"dict", "list", "dec128", "oid"} THEN value
    ELSE IF value.kind = "dict" THEN clean_document(value)
    ELSE IF value.kind = "list" THEN MkList(<<clean_document(value)>>)
    ELSE IF value.kind = "dec128" THEN to_decimal(value)
    ELSE str(value)

\* the if/elif chain of clean_document's loop: the value stored under a key
clean_value(value) ==
    IF value.kind \notin {"dict", "list", "dec128", "oid"} THEN value
    ELSE IF value.kind = "dict" THEN clean_document(value)
    ELSE IF value.kind = "list"
         THEN MkList([i \in 1..Len(value.items) |-> clean_document(value.items[i])])
    ELSE IF value.kind = "dec128" THEN to_decimal(value)
    ELSE str(value)

RECURSIVE clean_items_dropping(_, _, _)
\* the loop without its first branch: a value that is none of dict, list,
\* Decimal128, ObjectId matches no elif and its key is never stored
clean_items_dropping(doc, i, out) ==
    IF i > Len(doc.keys) THEN out
    ELSE IF doc.items[i].kind \notin {"dict", "list", "dec128", "oid"}
         THEN clean_items_dropping(doc, i + 1, out)
    ELSE clean_items_dropping(doc, i + 1,
                              DictSet(out, doc.keys[i], clean_value(doc.items[i])))

RECURSIVE clean_items(_, _, _)
\* for key, value in document.items(): output[key] = ...   (from item i on)
clean_items(doc, i, out) ==
    IF i > Len(doc.keys) THEN out
    ELSE clean_items(doc, i + 1, DictSet(out, doc.keys[i], clean_value(doc.items[i])))

clean_document(doc) ==
    IF doc.kind # "dict" THEN doc
    ELSE clean_items(doc, 1, MkDict(<<>>, <<>>))

(***************************************************************************)
(* The bounded documents clean_document is applied to.                      *)
(***************************************************************************)
Keys == {"a", "b"}

InputScalars == {IntVal(1), ObjectId(171), Decimal128(0, 15, -1)}

\* the sequences of n distinct keys
KeySeqs(n) ==
    {ks \in [1..n -> Keys] : \A i, j \in 1..n : i # j => ks[i] # ks[j]}

RECURSIVE DictsOver(_, _)
\* the dicts of at most j keys around one of the sequences fs
DictsOver(j, fs) ==
    IF j < 0 THEN {}
    ELSE {MkDict(ks, f) : ks \in KeySeqs(j), f \in {g \in fs : Len(g) = j}}
         \cup DictsOver(j - 1, fs)

\* the values with exactly n nodes, given fs[m + 1] = the sequences of values
\* with m nodes in all, for every m < n: a scalar, or a list or a dict around
\* a sequence with n - 1 nodes
ValuesFrom(n, fs) ==
    (IF n = 1 THEN InputScalars ELSE {})
    \cup {MkList(f) : f \in fs[n]}
    \cup DictsOver(Cardinality(Keys), fs[n])

RECURSIVE ForestsHeadedBy(_, _, _, _)
\* the sequences of values with m nodes in all whose first value has at most
\* k nodes, given vs[j] = the values with j nodes for j <= m and fs as above
ForestsHeadedBy(k, m, vs, fs) ==
    IF k = 0 THEN {}
    ELSE {<<v>> \o f : v \in vs[k], f \in fs[m - k + 1]}
         \cup ForestsHeadedBy(k - 1, m, vs, fs)

RECURSIVE ValueTable(_, _, _)
\* vs extended, size by size, up to MaxNodes (each new table is bound by a
\* quantifier so that it is computed once)
ValueTable(n, vs, fs) ==
    IF n > MaxNodes THEN vs
    ELSE CHOOSE t \in
           UNION {{ValueTable(n + 1, nvs, nfs)
                     : nfs \in {IF n = MaxNodes THEN fs
                                ELSE Append(fs, ForestsHeadedBy(n, n, nvs, fs))}}
                     : nvs \in {Append(vs, ValuesFrom(n, fs))}} : TRUE

RECURSIVE ValuesUpTo(_, _)
\* the values of at most n nodes
ValuesUpTo(n, vs) == IF n = 0 THEN {} ELSE vs[n] \cup ValuesUpTo(n - 1, vs)

\* every value of at most MaxNodes nodes
Values == ValuesUpTo(MaxNodes, ValueTable(1, <<>>, <<{<<>>}>>))

(***************************************************************************)
(* The store, the descriptor and the query.                                 *)
(***************************************************************************)
\* the cursor-field values of the stored documents: one below zero, one above
DocValues == {-1, 1}

\* the watermarks: absent, or a value below, equal to or above a stored
\* value; 0 is the zero-like value
Watermarks == {None} \cup {IntVal(v) : v \in {-1, 0, 1}}

\* the i-th stored document: {"_id": ObjectId(i), "ts": v}
StoreDoc(i, v) == MkDict(<<"_id", "ts">>, <<ObjectId(i), IntVal(v)>>)

Collections ==
    UNION {{[i \in 1..n |-> StoreDoc(i, vs[i])] : vs \in [1..n -> DocValues]}
           : n \in 0..MaxDocs}

\* incremental=None
NoIncremental ==
    [present |-> FALSE, cursor_path |-> "", last_value |-> None,
     last_value_func |-> "max"]

\* dlt.sources.incremental(cursor_path, last_value_func=...), with the
\* watermark its state holds
Incrementals ==
    {NoIncremental} \cup
    {[present |-> TRUE, cursor_path |-> "ts", last_value |-> w, last_value_func |-> f]
       : w \in Watermarks, f \in {"max", "min", "custom"}}

\* before CollectionLoader(...) has run
NoLoader == [constructed |-> FALSE, cursor_field |-> "", last_value |-> None]

\* before make_query() has run
NoFilter == [built |-> FALSE, conds |-> <<>>]

\* Python truth value of a value: None, 0 and empty str/list/dict are false
truthy(v) ==
    /\ v.kind # "none"
    /\ (v.kind = "int" => v.val[1] # 0)
    /\ (v.kind = "str" => v.val # <<>>)
    /\ (v.kind \in {"list", "dict"} => v.items # <<>>)

\* CollectionLoader.__init__: cursor_field and last_value are copied from the
\* descriptor once; self.incremental keeps a reference to the descriptor.
\* A descriptor object is true in `if incremental`; without one the loader
\* leaves cursor_field unset (it sets cursor_column) and never reads it.
CollectionLoader_init(inc) ==
    IF inc.present
    THEN [constructed |-> TRUE, cursor_field |-> inc.cursor_path,
          last_value |-> inc.last_value]
    ELSE [constructed |-> TRUE, cursor_field |-> "", last_value |-> None]

\* one condition of a filter document: {field: {op: arg}}
Cond(field, op, arg) == [field |-> field, op |-> op, arg |-> arg]

\* a slip: the custom policy falls into the max branch
make_query_custom_filtered(self_incremental, self_cursor_field, self_last_value) ==
    IF ~self_incremental.present \/ ~truthy(self_last_value)
    THEN [built |-> TRUE, conds |-> <<>>]
    ELSE IF self_incremental.last_value_func \in {"max", "custom"}
    THEN [built |-> TRUE, conds |-> <<Cond(self_cursor_field, "$gte", self_last_value)>>]
    ELSE [built |-> TRUE, conds |-> <<Cond(self_cursor_field, "$lt", self_last_value)>>]

\* a slip: the watermark is read from the descriptor when the query is
\* built instead of from the value stored at construction
make_query_live(self_incremental, self_cursor_field, self_last_value) ==
    IF ~self_incremental.present \/ ~truthy(self_incremental.last_value)
    THEN [built |-> TRUE, conds |-> <<>>]
    ELSE IF self_incremental.last_value_func = "max"
    THEN [built |-> TRUE,
          conds |-> <<Cond(self_cursor_field, "$gte", self_incremental.last_value)>>]
    ELSE IF self_incremental.last_value_func = "min"
    THEN [built |-> TRUE,
          conds |-> <<Cond(self_cursor_field, "$lt", self_incremental.last_value)>>]
    ELSE [built |-> TRUE, conds |-> <<>>]

\* CollectionLoader.make_query: the filter document handed to find()
make_query(self_incremental, self_cursor_field, self_last_value) ==
    IF ~self_incremental.present \/ ~truthy(self_last_value)
    THEN [built |-> TRUE, conds |-> <<>>]
    ELSE IF self_incremental.last_value_func = "max"
    THEN [built |-> TRUE, conds |-> <<Cond(self_cursor_field, "$gte", self_last_value)>>]
    ELSE IF self_incremental.last_value_func = "min"
    THEN [built |-> TRUE, conds |-> <<Cond(self_cursor_field, "$lt", self_last_value)>>]
    ELSE [built |-> TRUE, conds |-> <<>>]

\* whether the document has the field
HasField(doc, key) == \E i \in 1..Len(doc.keys) : doc.keys[i] = key

\* document[key]
GetField(doc, key) == doc.items[CHOOSE i \in 1..Len(doc.keys) : doc.keys[i] = key]

\* the store's evaluation of one condition on one document: the field must
\* exist and hold a value of the argument's type
Matches(doc, cond) ==
    /\ HasField(doc, cond.field)
    /\ GetField(doc, cond.field).kind = cond.arg.kind
    /\ cond.arg.kind = "int"
    /\ IF cond.op = "$gte"
       THEN GetField(doc, cond.field).val[1] >= cond.arg.val[1]
       ELSE GetField(doc, cond.field).val[1] < cond.arg.val[1]

RECURSIVE find(_, _)
\* collection.find(filter_op): the documents that satisfy every condition of
\* the filter, in the store's iteration order
find(coll, conds) ==
    IF coll = <<>> THEN <<>>
    ELSE IF \A c \in 1..Len(conds) : Matches(Head(coll), conds[c])
         THEN <<Head(coll)>> \o find(Tail(coll), conds)
         ELSE find(Tail(coll), conds)

(***************************************************************************)
(* load_documents and collection_documents.                                 *)
(***************************************************************************)
\* a slip: the raw document is yielded
load_documents_yield_raw(slice, doc) == Append(slice, doc)

\* load_documents: yield self.clean_document(document), collected by
\* list(islice(...)) into the slice being built
load_documents_yield(slice, doc) == Append(slice, clean_document(doc))

\* a slip: islice stops one element late
islice_full_late(slice) == Len(slice) > CHUNK_SIZE

\* islice(documents_load, CHUNK_SIZE) has taken CHUNK_SIZE elements
islice_full(slice) == Len(slice) >= CHUNK_SIZE

\* a slip: the loop runs whatever the slice holds
walrus_always(slice) == TRUE

\* while docs_slice := list(...): the truth value of the list
walrus_truthy(slice) == Len(slice) > 0

\* a slip: a handler around the read ends the stream quietly
propagate_swallowed(f) == [pc |-> "done", outcome |-> "stop"]

\* a fault raised inside the cursor unwinds load_documents, islice, list and
\* collection_documents, none of which has a handler: the generator is
\* finished and the consumer's pull raises the fault
propagate(f) == [pc |-> "faulted", outcome |-> f]

\* the faults the store connection can raise
Faults == {"OperationFailure", "AutoReconnect"}

Init ==
    /\ document = None
    /\ output = None
    /\ output2 = None
    /\ cpc = "unused"
    /\ collection \in Collections
    /\ incremental \in Incrementals
    /\ loader = NoLoader
    /\ filter_op = NoFilter
    /\ result = <<>>
    /\ pos = 0
    /\ gen_done = FALSE
    /\ docs_slice = <<>>
    /\ chunks = <<>>
    /\ pc = "created"
    /\ outcome = "none"
    /\ fault = "none"

\* the consumer calls next() on the generator: the first time the body
\* starts at line 101, later it resumes after the yield and re-enters the
\* while condition with a new islice
Pull ==
    /\ pc \in {"created", "suspended"}
    /\ pc' = IF pc = "created" THEN "init" ELSE "slice"
    /\ docs_slice' = <<>>
    /\ outcome' = "none"
    /\ UNCHANGED <<collection, incremental, loader, filter_op, result, pos,
                   gen_done, chunks, fault>>
    /\ UNCHANGED cleanVars

\* next() on a generator that has returned or raised: StopIteration
PullFinished ==
    /\ pc \in {"done", "faulted"}
    /\ outcome' = "stop"
    /\ UNCHANGED <<collection, incremental, loader, filter_op, result, pos,
                   gen_done, docs_slice, chunks, pc, fault>>
    /\ UNCHANGED cleanVars

\* loader = CollectionLoader(client, collection, incremental=incremental)
\* documents_load = loader.load_documents()   (a generator: nothing runs yet)
Construct ==
    /\ pc = "init"
    /\ loader' = CollectionLoader_init(incremental)
    /\ pc' = "slice"
    /\ UNCHANGED <<collection, incremental, filter_op, result, pos, gen_done,
                   docs_slice, chunks, outcome, fault>>
    /\ UNCHANGED cleanVars

\* islice asks load_documents for its next element
NeedsNext == pc = "slice" /\ ~islice_full(docs_slice) /\ ~gen_done

\* first next() on load_documents: cursor = self.make_query()
MakeQuery ==
    /\ NeedsNext
    /\ ~filter_op.built
    /\ filter_op' = make_query(incremental, loader.cursor_field, loader.last_value)
    /\ result' = find(collection, filter_op'.conds)
    /\ UNCHANGED <<collection, incremental, loader, pos, gen_done, docs_slice,
                   chunks, pc, outcome, fault>>
    /\ UNCHANGED cleanVars

\* for document in cursor: yield self.clean_document(document)
ReadDoc ==
    /\ NeedsNext
    /\ filter_op.built
    /\ pos < Len(result)
    /\ pos' = pos + 1
    /\ docs_slice' = load_documents_yield(docs_slice, result[pos + 1])
    /\ UNCHANGED <<collection, incremental, loader, filter_op, result, gen_done,
                   chunks, pc, outcome, fault>>
    /\ UNCHANGED cleanVars

\* the cursor is exhausted: the for loop ends and load_documents returns
Exhaust ==
    /\ NeedsNext
    /\ filter_op.built
    /\ pos = Len(result)
    /\ gen_done' = TRUE
    /\ UNCHANGED <<collection, incremental, loader, filter_op, result, pos,
                   docs_slice, chunks, pc, outcome, fault>>
    /\ UNCHANGED cleanVars

\* the store raises while the query is opened or the cursor is advanced
StoreFault ==
    /\ NeedsNext
    /\ \E f \in Faults :
         /\ fault' = f
         /\ pc' = propagate(f).pc
         /\ outcome' = propagate(f).outcome
    /\ docs_slice' = <<>>
    /\ UNCHANGED <<collection, incremental, loader, filter_op, result, pos,
                   gen_done, chunks>>
    /\ UNCHANGED cleanVars

\* islice is done (full, or load_documents returned) and the list is not
\* empty: yield docs_slice
Yield ==
    /\ pc = "slice"
    /\ islice_full(docs_slice) \/ gen_done
    /\ walrus_truthy(docs_slice)
    /\ chunks' = Append(chunks, docs_slice)
    /\ docs_slice' = <<>>
    /\ pc' = "suspended"
    /\ outcome' = "chunk"
    /\ UNCHANGED <<collection, incremental, loader, filter_op, result, pos,
                   gen_done, fault>>
    /\ UNCHANGED cleanVars

\* the list is empty: the while loop ends and the generator returns
Finish ==
    /\ pc = "slice"
    /\ islice_full(docs_slice) \/ gen_done
    /\ ~walrus_truthy(docs_slice)
    /\ pc' = "done"
    /\ outcome' = "stop"
    /\ UNCHANGED <<collection, incremental, loader, filter_op, result, pos,
                   gen_done, docs_slice, chunks, fault>>
    /\ UNCHANGED cleanVars

\* the pipeline framework stores a new watermark in the descriptor's state
FrameworkSetsWatermark ==
    /\ incremental.present
    /\ \E w \in Watermarks \ {incremental.last_value} :
         incremental' = [incremental EXCEPT !.last_value = w]
    /\ UNCHANGED <<collection, loader, filter_op, result, pos, gen_done,
                   docs_slice, chunks, pc, outcome, fault>>
    /\ UNCHANGED cleanVars

ExtractorStep == Construct \/ MakeQuery \/ ReadDoc \/ Exhaust \/ Yield \/ Finish

Next ==
    \/ Pull
    \/ PullFinished
    \/ Construct
    \/ MakeQuery
    \/ ReadDoc
    \/ Exhaust
    \/ StoreFault
    \/ Yield
    \/ Finish
    \/ FrameworkSetsWatermark

Spec == Init /\ [][Next]_vars

\* an extraction during which the store raises no fault
NextFaultFree ==
    \/ Pull
    \/ PullFinished
    \/ Construct
    \/ MakeQuery
    \/ ReadDoc
    \/ Exhaust
    \/ Yield
    \/ Finish
    \/ FrameworkSetsWatermark

\* the store raises no fault, the consumer keeps pulling and the interpreter
\* keeps running the generator's body; the framework's updates are not forced
FairSpec ==
    Init /\ [][NextFaultFree]_vars /\ WF_vars(Pull) /\ WF_vars(ExtractorStep)

(***************************************************************************)
(* SpecClean: clean_document on every bounded value, then on its result.    *)
(***************************************************************************)
InitClean ==
    /\ document \in Values
    /\ output = None
    /\ output2 = None
    /\ cpc = "input"
    /\ collection = <<>>
    /\ incremental = NoIncremental
    /\ loader = NoLoader
    /\ filter_op = NoFilter
    /\ result = <<>>
    /\ pos = 0
    /\ gen_done = FALSE
    /\ docs_slice = <<>>
    /\ chunks = <<>>
    /\ pc = "unused"
    /\ outcome = "none"
    /\ fault = "none"

\* output = loader.clean_document(document)
Clean ==
    /\ cpc = "input"
    /\ output' = clean_document(document)
    /\ cpc' = "cleaned"
    /\ UNCHANGED <<document, output2>>
    /\ UNCHANGED extractVars

\* output2 = loader.clean_document(output)
CleanAgain ==
    /\ cpc = "cleaned"
    /\ output2' = clean_document(output)
    /\ cpc' = "recleaned"
    /\ UNCHANGED <<document, output>>
    /\ UNCHANGED extractVars

NextClean == Clean \/ CleanAgain

SpecClean == InitClean /\ [][NextClean]_vars

(***************************************************************************)
(* Properties of clean_document (checked under SpecClean).                  *)
(***************************************************************************)
RECURSIVE HasSpecial(_)
\* an ObjectId or a Decimal128 occurs in the value, at any depth
HasSpecial(v) ==
    \/ v.kind \in {"oid", "dec128"}
    \/ \E i \in 1..Len(v.items) : HasSpecial(v.items[i])

RECURSIVE Substituted(_)
\* the value with every ObjectId replaced by its string form and every
\* Decimal128 by its decimal value, at every depth, and nothing else changed
Substituted(v) ==
    IF v.kind = "oid" THEN str(v)
    ELSE IF v.kind = "dec128" THEN to_decimal(v)
    ELSE [v EXCEPT !.items = [i \in 1..Len(v.items) |-> Substituted(v.items[i])]]

\* C3: for every document (a mapping), clean_document's output contains no
\* ObjectId and no Decimal128 at any depth and is the input with exactly
\* those substitutions made (same keys, same order, same lengths).
C3_DeepSubstitution ==
    (cpc # "input" /\ document.kind = "dict") =>
        (~HasSpecial(output) /\ output = Substituted(document))

\* C4: on a document holding only JSON-safe scalars, and on every input
\* that is not a mapping, clean_document returns a value equal to its
\* input; and the input object is never modified.
C4_IdentityOnSafe ==
    /\ [](cpc # "input" /\ (~HasSpecial(document) \/ document.kind # "dict")
             => output = document)
    /\ [][document' = document]_vars

\* a JSON-safe document with a mapping inside a sequence has been cleaned
C4_Witness ==
    /\ cpc = "cleaned"
    /\ document.kind = "dict"
    /\ ~HasSpecial(document)
    /\ Len(document.keys) = 1
    /\ document.items[1].kind = "list"
    /\ Len(document.items[1].items) = 1
    /\ document.items[1].items[1].kind = "dict"
    /\ Len(document.items[1].items[1].keys) = 1
    /\ output = document

\* C5: clean_document(clean_document(d)) = clean_document(d) for every d.
C5_Idempotent == cpc = "recleaned" => output2 = output

\* a document with an ObjectId under a key (converted) and another inside a
\* sequence has been cleaned twice
C5_Witness ==
    /\ cpc = "recleaned"
    /\ document.kind = "dict"
    /\ Len(document.keys) = 2
    /\ document.items[1].kind = "oid"
    /\ document.items[2].kind = "list"
    /\ Len(document.items[2].items) = 1
    /\ document.items[2].items[1].kind = "oid"
    /\ output # document
    /\ output2 = output

(***************************************************************************)
(* Properties of the extraction (checked under Spec and FairSpec).          *)
(***************************************************************************)
RECURSIVE Concat(_)
\* the chunks joined in the order they were yielded
Concat(cs) == IF cs = <<>> THEN <<>> ELSE Head(cs) \o Concat(Tail(cs))

\* the documents handed to the consumer so far
Delivered == Concat(chunks)

\* the store's documents after sanitization, in the store's order
Sanitized(docs) == [i \in 1..Len(docs) |-> clean_document(docs[i])]

\* ceil(n / CHUNK_SIZE)
CeilDiv(n) == (n + CHUNK_SIZE - 1) \div CHUNK_SIZE

\* the cursor-field value of a (sanitized) document
CursorValue(doc) == GetField(doc, "ts").val[1]

\* the generator is not running: it has not started, is suspended at the
\* yield, has returned or has raised
NotPulling == pc \in {"created", "suspended", "done", "faulted"}

\* C1: with a watermark W present (any value other than absent) and policy
\* max, every delivered document has cursor-field value >= W; with policy min,
\* every delivered document has cursor-field value < W.
C1_WatermarkBound ==
    (loader.constructed /\ incremental.present /\ loader.last_value # None) =>
        /\ incremental.last_value_func = "max" =>
             \A i \in 1..Len(Delivered) :
                 CursorValue(Delivered[i]) >= loader.last_value.val[1]
        /\ incremental.last_value_func = "min" =>
             \A i \in 1..Len(Delivered) :
                 CursorValue(Delivered[i]) < loader.last_value.val[1]

\* C2: without a descriptor, with an absent watermark, or with a custom
\* policy (whatever the watermark), make_query issues the empty filter, the
\* query returns what an unfiltered query returns and a finished extraction
\* has delivered every document of the collection; a filter never combines
\* conditions.
C2_Unfiltered ==
    /\ filter_op.built => Len(filter_op.conds) <= 1
    /\ (/\ filter_op.built
        /\ \/ ~incremental.present
           \/ loader.last_value = None
           \/ incremental.last_value_func = "custom")
       => /\ filter_op.conds = <<>>
          /\ result = collection
          /\ pc = "done" => Delivered = Sanitized(collection)

\* a custom-policy extraction with a watermark above some stored value has
\* finished and delivered the whole collection
C2_Witness ==
    /\ pc = "done"
    /\ incremental.present
    /\ incremental.last_value_func = "custom"
    /\ loader.last_value = IntVal(1)
    /\ Len(collection) >= 3
    /\ \E i \in 1..Len(collection) : CursorValue(collection[i]) < 1
    /\ Delivered = Sanitized(collection)

\* C6: a finished extraction of a result of N documents has yielded
\* ceil(N / CHUNK_SIZE) chunks; every chunk but the last has CHUNK_SIZE
\* documents and the last between 1 and CHUNK_SIZE; the chunks joined in
\* order are the sanitized documents of the result in the store's order
\* (and, while running, of the part of the result read so far).
C6_Chunking ==
    /\ \A i \in 1..Len(chunks) :
         /\ Len(chunks[i]) >= 1
         /\ Len(chunks[i]) <= CHUNK_SIZE
         /\ i < Len(chunks) => Len(chunks[i]) = CHUNK_SIZE
    /\ fault = "none" =>
         Delivered \o docs_slice = Sanitized(SubSeq(result, 1, pos))
    /\ pc = "done" =>
         /\ Len(chunks) = CeilDiv(Len(result))
         /\ Delivered = Sanitized(result)

\* an extraction of two and a half chunks has finished: sizes C, C and 1
C6_Witness ==
    /\ pc = "done"
    /\ Len(result) = 2 * CHUNK_SIZE + 1
    /\ Len(chunks) = 3
    /\ Len(chunks[1]) = CHUNK_SIZE
    /\ Len(chunks[2]) = CHUNK_SIZE
    /\ Len(chunks[3]) = 1

\* C7: no empty chunk is ever yielded; the generator returns only once the
\* store cursor is exhausted; after it has returned no chunk is produced; and
\* with a consumer that keeps pulling and no store fault it does return.
C7_Terminates ==
    /\ [](\A i \in 1..Len(chunks) : Len(chunks[i]) > 0)
    /\ [](pc = "done" => gen_done /\ pos = Len(result) /\ Len(Delivered) = pos)
    /\ [][pc = "done" => pc' = "done" /\ chunks' = chunks /\ pos' = pos]_vars
    /\ <>(pc = "done")

\* the generator has returned after a result of exactly two full chunks
C7_Witness ==
    /\ pc = "done"
    /\ fault = "none"
    /\ Len(result) = 2 * CHUNK_SIZE
    /\ Len(chunks) = 2

\* C8: a fault the store raises reaches the consumer as the result of the
\* pull during which it was raised (not a chunk, not the end of the stream);
\* from then on the delivered chunks stay as they are, no chunk is added, the
\* query is not reissued and the cursor is not advanced again.
C8_FaultPropagates ==
    /\ [](fault # "none" <=> pc = "faulted")
    /\ [][(fault = "none" /\ fault' # "none") =>
            /\ pc' = "faulted"
            /\ outcome' = fault'
            /\ chunks' = chunks]_vars
    /\ [][fault # "none" =>
            /\ fault' = fault
            /\ pc' = "faulted"
            /\ chunks' = chunks
            /\ pos' = pos
            /\ filter_op' = filter_op
            /\ result' = result]_vars

\* the store failed while the second chunk was being read: the first chunk
\* stays delivered and the pull raised the fault
C8_Witness ==
    /\ pc = "faulted"
    /\ fault = "AutoReconnect"
    /\ outcome = fault
    /\ Len(chunks) = 1
    /\ pos = CHUNK_SIZE + 1

C10_WatermarkReadOnce ==
    /\ [](filter_op.built =>
            /\ \A w \in Watermarks :
                 make_query([incremental EXCEPT !.last_value = w],
                            loader.cursor_field, loader.last_value) = filter_op
            /\ result = find(collection, filter_op.conds))
    /\ [](fault = "none" =>
            Delivered \o docs_slice = Sanitized(SubSeq(result, 1, pos)))
    /\ [][loader.constructed => loader' = loader]_vars
    /\ [][filter_op.built => (filter_op' = filter_op /\ result' = result)]_vars
    /\ [][incremental' # incremental =>
            UNCHANGED <<collection, loader, filter_op, result, pos, gen_done,
                        docs_slice, chunks, pc, outcome, fault>>]_vars

\* a filtered extraction has finished although the framework has replaced
\* the descriptor's watermark since the loader was constructed
C10_Witness ==
    /\ pc = "done"
    /\ incremental.present
    /\ incremental.last_value # loader.last_value
    /\ Len(filter_op.conds) = 1
    /\ Len(chunks) >= 1
    /\ Len(result) < Len(collection)

====
